---------------------------- MODULE Spec2Model ----------------------------
(***************************************************************************)
(* Argument resolution of `sad` (src/src/argparse.rs).                     *)
(*                                                                         *)
(* A String is a sequence of characters, a character a one-symbol TLA+     *)
(* string.  Option<T> is a sequence of length at most one: None is <<>>,   *)
(* Some(v) is <<v>>.  Vec<T> is a sequence.                                *)
(*                                                                         *)
(* Two specifications:                                                     *)
(*   SpecArgs  Arguments::new, the rebuilding of the argument list that is *)
(*             handed to the command line parser;                          *)
(*   Spec      Options::new, from a parsed Arguments value to Options.     *)
(* The command line parser itself (structopt) and the matching done by the *)
(* compiled engines are library code and are not modelled: Spec draws the  *)
(* fields of Arguments from bounded sets, and an engine is represented by  *)
(* the builder settings it was built with.                                 *)
(***************************************************************************)
EXTENDS Naturals, Sequences, FiniteSets

None == <<>>
Some(v) == <<v>>

Ok(v) == [ok |-> TRUE, val |-> v]
Err(e) == [ok |-> FALSE, err |-> e]

(* Characters that a TLA+ string does not write plainly are named: U+0004  *)
(* (the delimiter of the `-c` blob), the double quote, the backslash, the   *)
(* backtick, tab and newline.                                               *)
EOT == "EOT"
DQUOTE == "DQUOTE"
BSLASH == "BSLASH"
BTICK == "BTICK"
TAB == "TAB"
NL == "NL"

\* -------------------------------------------------------------------------
\* Bounds of the model
\* -------------------------------------------------------------------------
MaxPatLen == 2
MaxFlagLen == 2
MaxBlobLen == 3

RECURSIVE SeqsUpTo(_, _)
SeqsUpTo(S, n) ==
  IF n = 0 THEN {<<>>}
  ELSE LET shorter == SeqsUpTo(S, n - 1)
       IN  shorter \cup {Append(s, c) : s \in shorter, c \in S}

\* -------------------------------------------------------------------------
\* Library string operations used by the code
\* -------------------------------------------------------------------------
IsWhitespace(c) == c \in {" ", TAB, NL}

(* char::is_uppercase on the letters the model uses. *)
UppercaseLetters ==
  {"A", "B", "C", "D", "E", "F", "G", "H", "I", "J", "K", "L", "M",
   "N", "O", "P", "Q", "R", "S", "T", "U", "V", "W", "X", "Y", "Z"}

IsUppercase(c) == c \in UppercaseLetters

(* str::split_whitespace: the maximal runs of non-whitespace, in order. *)
RECURSIVE SplitWs(_, _, _)
SplitWs(s, cur, acc) ==
  IF s = <<>> THEN (IF cur = <<>> THEN acc ELSE Append(acc, cur))
  ELSE IF IsWhitespace(Head(s))
       THEN SplitWs(Tail(s), <<>>, IF cur = <<>> THEN acc ELSE Append(acc, cur))
       ELSE SplitWs(Tail(s), Append(cur, Head(s)), acc)

split_whitespace(s) == SplitWs(s, <<>>, <<>>)

(* str::split(d): the pieces between the occurrences of character d; always *)
(* at least one piece.                                                      *)
RECURSIVE SplitOn(_, _, _, _)
SplitOn(s, d, cur, acc) ==
  IF s = <<>> THEN Append(acc, cur)
  ELSE IF Head(s) = d
       THEN SplitOn(Tail(s), d, <<>>, Append(acc, cur))
       ELSE SplitOn(Tail(s), d, Append(cur, Head(s)), acc)

split(s, d) == SplitOn(s, d, <<>>, <<>>)

RECURSIVE TrimStart(_)
TrimStart(s) ==
  IF s # <<>> /\ IsWhitespace(Head(s)) THEN TrimStart(Tail(s)) ELSE s

RECURSIVE TrimEnd(_)
TrimEnd(s) ==
  IF s # <<>> /\ IsWhitespace(s[Len(s)])
  THEN TrimEnd(SubSeq(s, 1, Len(s) - 1))
  ELSE s

trim(s) == TrimEnd(TrimStart(s))

(* flags.split_terminator("").skip(1): an empty separator matches at every  *)
(* character boundary, so split yields "", each character, ""; the          *)
(* terminator form drops the trailing empty piece and skip(1) the leading   *)
(* one.                                                                     *)
SplitEmpty(s) == <<<<>>>> \o [i \in 1..Len(s) |-> <<s[i]>>] \o <<<<>>>>

SplitTerminatorEmpty(s) ==
  LET pieces == SplitEmpty(s)
  IN  IF pieces[Len(pieces)] = <<>>
      THEN SubSeq(pieces, 1, Len(pieces) - 1)
      ELSE pieces

Skip1(q) == IF q = <<>> THEN <<>> ELSE Tail(q)

unwrap_or_default(o) == IF o = None THEN <<>> ELSE o[1]

\* -------------------------------------------------------------------------
\* p_auto_flags, the engine builders
\* -------------------------------------------------------------------------
p_auto_flagsMutFirstChar(pattern) ==
  IF pattern # <<>> /\ IsUppercase(Head(pattern)) THEN <<<<"I">>>> ELSE <<<<"i">>>>

RECURSIVE p_auto_flags(_)
p_auto_flags(pattern) ==
  IF pattern = <<>> THEN <<<<"i">>>>
  ELSE IF IsUppercase(Head(pattern)) THEN <<<<"I">>>>
       ELSE p_auto_flags(Tail(pattern))

(* Options::new, the flagset: the auto flag, then every character of the    *)
(* user's flag string.                                                      *)
FlagSet(pattern, flags) ==
  p_auto_flags(pattern) \o Skip1(SplitTerminatorEmpty(unwrap_or_default(flags)))

AhoCorasickBuilderNew == [ascii_case_insensitive |-> FALSE]

RegexBuilderNew ==
  [case_insensitive |-> FALSE, multi_line |-> FALSE,
   dot_matches_new_line |-> FALSE, swap_greed |-> FALSE,
   ignore_whitespace |-> FALSE]

InvalidFlags == "Invalid flags"
RegexError == "regex::Error"

RECURSIVE AcApplyMutRegexFlags(_, _)
AcApplyMutRegexFlags(ac, flags) ==
  IF flags = <<>> THEN Ok(ac)
  ELSE LET flag == Head(flags)
       IN  IF flag = <<"I">>
           THEN AcApplyMutRegexFlags([ac EXCEPT !.ascii_case_insensitive = FALSE], Tail(flags))
           ELSE IF flag = <<"i">>
           THEN AcApplyMutRegexFlags([ac EXCEPT !.ascii_case_insensitive = TRUE], Tail(flags))
           ELSE IF flag \in {<<"m">>, <<"s">>, <<"U">>, <<"x">>}
           THEN AcApplyMutRegexFlags(ac, Tail(flags))
           ELSE Err(InvalidFlags)

(* p_aho_corasick, the loop over the flags. *)
RECURSIVE AcApply(_, _)
AcApply(ac, flags) ==
  IF flags = <<>> THEN Ok(ac)
  ELSE LET flag == Head(flags)
       IN  IF flag = <<"I">>
           THEN AcApply([ac EXCEPT !.ascii_case_insensitive = FALSE], Tail(flags))
           ELSE IF flag = <<"i">>
           THEN AcApply([ac EXCEPT !.ascii_case_insensitive = TRUE], Tail(flags))
           ELSE Err(InvalidFlags)

p_aho_corasick(pattern, flags) == AcApply(AhoCorasickBuilderNew, flags)

RECURSIVE ReApplyFirstCaseWinsLoop(_, _, _)
ReApplyFirstCaseWinsLoop(re, flags, seen) ==
  IF flags = <<>> THEN Ok(re)
  ELSE LET flag == Head(flags)
       IN  IF flag \in {<<"I">>, <<"i">>}
           THEN ReApplyFirstCaseWinsLoop(
                  IF seen THEN re
                  ELSE [re EXCEPT !.case_insensitive = (flag = <<"i">>)],
                  Tail(flags), TRUE)
           ELSE IF flag = <<"m">>
           THEN ReApplyFirstCaseWinsLoop([re EXCEPT !.multi_line = TRUE], Tail(flags), seen)
           ELSE IF flag = <<"s">>
           THEN ReApplyFirstCaseWinsLoop([re EXCEPT !.dot_matches_new_line = TRUE], Tail(flags), seen)
           ELSE IF flag = <<"U">>
           THEN ReApplyFirstCaseWinsLoop([re EXCEPT !.swap_greed = TRUE], Tail(flags), seen)
           ELSE IF flag = <<"x">>
           THEN ReApplyFirstCaseWinsLoop([re EXCEPT !.ignore_whitespace = TRUE], Tail(flags), seen)
           ELSE Err(InvalidFlags)

ReApplyMutFirstCaseWins(re, flags) == ReApplyFirstCaseWinsLoop(re, flags, FALSE)

(* p_regex, the loop over the flags. *)
RECURSIVE ReApply(_, _)
ReApply(re, flags) ==
  IF flags = <<>> THEN Ok(re)
  ELSE LET flag == Head(flags)
       IN  IF flag = <<"I">>
           THEN ReApply([re EXCEPT !.case_insensitive = FALSE], Tail(flags))
           ELSE IF flag = <<"i">>
           THEN ReApply([re EXCEPT !.case_insensitive = TRUE], Tail(flags))
           ELSE IF flag = <<"m">>
           THEN ReApply([re EXCEPT !.multi_line = TRUE], Tail(flags))
           ELSE IF flag = <<"s">>
           THEN ReApply([re EXCEPT !.dot_matches_new_line = TRUE], Tail(flags))
           ELSE IF flag = <<"U">>
           THEN ReApply([re EXCEPT !.swap_greed = TRUE], Tail(flags))
           ELSE IF flag = <<"x">>
           THEN ReApply([re EXCEPT !.ignore_whitespace = TRUE], Tail(flags))
           ELSE Err(InvalidFlags)

(* RegexBuilder::build on the patterns of the model, which are made of      *)
(* letters and parentheses: the pattern compiles iff its groups are closed  *)
(* and opened in order.                                                     *)
RECURSIVE GroupsBalanced(_, _)
GroupsBalanced(pattern, depth) ==
  IF pattern = <<>> THEN depth = 0
  ELSE IF Head(pattern) = "(" THEN GroupsBalanced(Tail(pattern), depth + 1)
  ELSE IF Head(pattern) = ")"
       THEN depth > 0 /\ GroupsBalanced(Tail(pattern), depth - 1)
  ELSE GroupsBalanced(Tail(pattern), depth)

RegexBuild(pattern, re) ==
  IF GroupsBalanced(pattern, 0) THEN Ok(re) ELSE Err(RegexError)

p_regex(pattern, flags) ==
  LET applied == ReApply(RegexBuilderNew, flags)
  IN  IF applied.ok THEN RegexBuild(pattern, applied.val) ELSE applied

\* -------------------------------------------------------------------------
\* p_fzf, p_pager
\* -------------------------------------------------------------------------
S_never == <<"n", "e", "v", "e", "r">>

p_fzfMutIgnoresTty(fzf, which_fzf, tty) ==
  IF which_fzf
  THEN IF fzf # None /\ fzf[1] = S_never THEN None
       ELSE IF fzf # None THEN Some(split_whitespace(fzf[1]))
       ELSE Some(<<>>)
  ELSE None

p_fzfMutNeverIsArgument(fzf, which_fzf, tty) ==
  IF which_fzf /\ tty
  THEN IF fzf # None THEN Some(split_whitespace(fzf[1]))
       ELSE Some(<<>>)
  ELSE None

(* which_fzf: which::which("fzf") is Ok; tty: p_tty(), standard output is a *)
(* terminal.                                                                *)
p_fzf(fzf, which_fzf, tty) ==
  IF which_fzf /\ tty
  THEN IF fzf # None /\ fzf[1] = S_never THEN None
       ELSE IF fzf # None THEN Some(split_whitespace(fzf[1]))
       ELSE Some(<<>>)
  ELSE None

(* Option::or *)
OrElse(a, b) == IF a # None THEN a ELSE b

SubprocessCommand(program, arguments) ==
  [program |-> program, arguments |-> arguments, env |-> {}]

p_pagerMutWholePipeline(pager, git_pager) ==
  LET resolved == OrElse(pager, git_pager)
  IN  IF resolved = None THEN None
      ELSE LET val == resolved[1]
           IN  IF val = S_never THEN None
               ELSE LET commands == split_whitespace(trim(val))
                    IN  IF commands = <<>> THEN None
                        ELSE Some(SubprocessCommand(Head(commands), Tail(commands)))

(* git_pager: env::var("GIT_PAGER").ok() *)
p_pager(pager, git_pager) ==
  LET resolved == OrElse(pager, git_pager)
  IN  IF resolved = None THEN None
      ELSE LET val == resolved[1]
           IN  IF val = S_never THEN None
               ELSE LET less_less == trim(Head(split(val, "|")))
                        commands == split_whitespace(less_less)
                    IN  IF commands = <<>> THEN None
                        ELSE Some(SubprocessCommand(Head(commands), Tail(commands)))

Stdout == [kind |-> "Stdout"]
Pager(cmd) == [kind |-> "Pager", cmd |-> cmd]

PrinterOf(pager, git_pager) ==
  LET cmd == p_pager(pager, git_pager)
  IN  IF cmd # None THEN Pager(cmd[1]) ELSE Stdout

ActionOfMutFzfFirst(commit, internal_patch, internal_preview, fzf) ==
  IF internal_preview # None \/ fzf = None THEN "Preview"
  ELSE IF commit \/ internal_patch # None THEN "Commit"
  ELSE "Fzf"

ActionOfMutIgnoresFzf(commit, internal_patch, internal_preview, fzf) ==
  IF commit \/ internal_patch # None THEN "Commit"
  ELSE IF internal_preview # None THEN "Preview"
  ELSE "Fzf"

(* Options::new, the choice of the Action. *)
ActionOf(commit, internal_patch, internal_preview, fzf) ==
  IF commit \/ internal_patch # None THEN "Commit"
  ELSE IF internal_preview # None \/ fzf = None THEN "Preview"
  ELSE "Fzf"

EngineOf(exact, pattern, flagset, replace) ==
  IF exact
  THEN LET ac == p_aho_corasick(pattern, flagset)
       IN  IF ac.ok
           THEN Ok([kind |-> "AhoCorasick", matcher |-> ac.val,
                    replace |-> unwrap_or_default(replace)])
           ELSE ac
  ELSE LET re == p_regex(pattern, flagset)
       IN  IF re.ok
           THEN Ok([kind |-> "Regex", matcher |-> re.val,
                    replace |-> unwrap_or_default(replace)])
           ELSE re

\* -------------------------------------------------------------------------
\* shlex::split, as called by Arguments::new
\* -------------------------------------------------------------------------
(* The text of a double-quoted part; s starts after the opening quote. *)
RECURSIVE ParseDouble(_, _)
ParseDouble(s, result) ==
  IF s = <<>> THEN [ok |-> FALSE]
  ELSE IF Head(s) = BSLASH
       THEN IF Tail(s) = <<>> THEN [ok |-> FALSE]
            ELSE LET ch3 == s[2]
                     rest == Tail(Tail(s))
                 IN  IF ch3 \in {"$", BTICK, DQUOTE, BSLASH}
                     THEN ParseDouble(rest, Append(result, ch3))
                     ELSE IF ch3 = NL THEN ParseDouble(rest, result)
                     ELSE ParseDouble(rest, result \o <<BSLASH, ch3>>)
  ELSE IF Head(s) = DQUOTE
       THEN [ok |-> TRUE, result |-> result, rest |-> Tail(s)]
  ELSE ParseDouble(Tail(s), Append(result, Head(s)))

(* The text of a single-quoted part; s starts after the opening quote. *)
RECURSIVE ParseSingle(_, _)
ParseSingle(s, result) ==
  IF s = <<>> THEN [ok |-> FALSE]
  ELSE IF Head(s) = "'"
       THEN [ok |-> TRUE, result |-> result, rest |-> Tail(s)]
  ELSE ParseSingle(Tail(s), Append(result, Head(s)))

(* One word, starting with character ch followed by s. *)
RECURSIVE ParseWord(_, _, _)
ParseWord(ch, s, result) ==
  IF IsWhitespace(ch) THEN [ok |-> TRUE, result |-> result, rest |-> s]
  ELSE LET part ==
             IF ch = DQUOTE THEN ParseDouble(s, result)
             ELSE IF ch = "'" THEN ParseSingle(s, result)
             ELSE IF ch = BSLASH
                  THEN IF s = <<>> THEN [ok |-> FALSE]
                       ELSE [ok |-> TRUE,
                             result |-> IF Head(s) # NL
                                        THEN Append(result, Head(s))
                                        ELSE result,
                             rest |-> Tail(s)]
             ELSE [ok |-> TRUE, result |-> Append(result, ch), rest |-> s]
       IN  IF ~part.ok THEN part
           ELSE IF part.rest = <<>> THEN part
           ELSE ParseWord(Head(part.rest), Tail(part.rest), part.result)

RECURSIVE SkipComment(_)
SkipComment(s) ==
  IF s = <<>> THEN <<>>
  ELSE IF Head(s) = NL THEN Tail(s)
  ELSE SkipComment(Tail(s))

(* The input from the first character of the next word on. *)
RECURSIVE SkipBlank(_)
SkipBlank(s) ==
  IF s = <<>> THEN <<>>
  ELSE IF IsWhitespace(Head(s)) THEN SkipBlank(Tail(s))
  ELSE IF Head(s) = "#" THEN SkipBlank(SkipComment(Tail(s)))
  ELSE s

RECURSIVE ShlexCollect(_, _)
ShlexCollect(s, acc) ==
  LET t == SkipBlank(s)
  IN  IF t = <<>> THEN Some(acc)
      ELSE LET w == ParseWord(Head(t), Tail(t), <<>>)
           IN  IF ~w.ok THEN None
               ELSE ShlexCollect(w.rest, Append(acc, w.result))

(* shlex::split: Some(words), or None when a quote or an escape is left *)
(* open.                                                                *)
shlex_split(s) == ShlexCollect(s, <<>>)

unwrap_or_empty(o) == IF o = None THEN <<>> ELSE o[1]

\* -------------------------------------------------------------------------
\* Arguments::new
\* -------------------------------------------------------------------------
S_dash_c == <<"-", "c">>

RECURSIVE PushParamsMutKeepUnlexed(_, _, _, _)
PushParamsMutKeepUnlexed(params, i, last, args) ==
  IF i > last THEN args
  ELSE IF i = last
       THEN LET splits == shlex_split(params[i + 1])
            IN  PushParamsMutKeepUnlexed(params, i + 1, last,
                  IF splits = None THEN Append(args, params[i + 1])
                  ELSE args \o splits[1])
       ELSE PushParamsMutKeepUnlexed(params, i + 1, last, Append(args, params[i + 1]))

RECURSIVE PushParamsMutDropsBeforeLast(_, _, _, _)
PushParamsMutDropsBeforeLast(params, i, last, args) ==
  IF i > last THEN args
  ELSE IF i = last
       THEN PushParamsMutDropsBeforeLast(params, i + 1, last,
              args \o unwrap_or_empty(shlex_split(params[i + 1])))
       ELSE IF i + 1 = last
            THEN PushParamsMutDropsBeforeLast(params, i + 1, last, args)
            ELSE PushParamsMutDropsBeforeLast(params, i + 1, last,
                   Append(args, params[i + 1]))

(* The loop `for (i, param) in params`; i counts from 0 as enumerate does. *)
RECURSIVE PushParams(_, _, _, _)
PushParams(params, i, last, args) ==
  IF i > last THEN args
  ELSE IF i = last
       THEN PushParams(params, i + 1, last,
              args \o unwrap_or_empty(shlex_split(params[i + 1])))
       ELSE PushParams(params, i + 1, last, Append(args, params[i + 1]))

(* The argument list handed to the command line parser: the rebuilt one in *)
(* the `-c` form, the process arguments themselves otherwise.              *)
ArgumentsNewArgs(rawArgs) ==
  IF Len(rawArgs) >= 3 /\ rawArgs[2] = S_dash_c
  THEN LET params == split(rawArgs[3], EOT)
           last == Len(params) - 1
       IN  PushParams(params, 0, last, <<rawArgs[1]>>)
  ELSE rawArgs

\* -------------------------------------------------------------------------
\* Inputs
\* -------------------------------------------------------------------------
S_sad == <<"s", "a", "d">>
S_dash_k == <<"-", "k">>
S_exact == <<"-", "-", "e", "x", "a", "c", "t">>
S_foo == <<"f", "o", "o">>
S_bar == <<"b", "a", "r">>
S_baz == <<"b", "a", "z">>
S_less == <<"l", "e", "s", "s">>
S_dash_R == <<"-", "R">>
S_delta == <<"d", "e", "l", "t", "a">>
S_dash_m == <<"-", "m">>
S_plus_s == <<"+", "s">>

PatChars == {"a", "A", "("}
Patterns == SeqsUpTo(PatChars, MaxPatLen)

FlagChars == {"I", "i", "m", "s", "U", "x", "z"}
FlagArgs == {None} \cup {Some(f) : f \in SeqsUpTo(FlagChars, MaxFlagLen)}

ReplaceArgs == {None, Some(S_bar)}

(* " -m  +s " *)
S_fzf_opts == <<" ">> \o S_dash_m \o <<" ", " ">> \o S_plus_s \o <<" ">>

FzfArgs == {None, Some(S_never), Some(S_fzf_opts), Some(<<" ">>)}

S_less_R_cat == S_less \o <<" ">> \o S_dash_R \o <<" ", "|", " ", "c", "a", "t">>

PagerArgs == {None, Some(S_never), Some(S_less_R_cat), Some(<<" ", "|", " ", "c", "a", "t">>)}
GitPagerEnv == {None, Some(S_never), Some(S_delta)}

PatchArgs == {None, Some(<<>>), Some(<<S_foo>>)}
PreviewArgs == {None, Some(S_foo)}

BlobChars == {"a", " ", EOT, DQUOTE, "'", BSLASH, "#"}

(* The blob of the example: --exact, foo and "bar baz", joined by U+0004. *)
ExampleBlob == S_exact \o <<EOT>> \o S_foo \o <<EOT>> \o S_bar \o <<" ">> \o S_baz
ExampleRaw == <<S_sad, S_dash_c, ExampleBlob>>

Blobs == SeqsUpTo(BlobChars, MaxBlobLen) \cup {ExampleBlob}

RawArgs ==
  {<<S_sad>>} \cup {<<S_sad, lhs>> : lhs \in {S_dash_c, S_dash_k}}
  \cup {<<S_sad, lhs, rhs>> : lhs \in {S_dash_c, S_dash_k}, rhs \in Blobs}
  \cup {<<S_sad, S_dash_c, rhs, S_dash_k>> : rhs \in Blobs}

\* -------------------------------------------------------------------------
\* State
\* -------------------------------------------------------------------------
VARIABLES
  pc,       \* position in Arguments::new (SpecArgs) or Options::new (Spec)
  raw,      \* env::args(), the process arguments
  argv,     \* the argument list handed to the command line parser
  args,     \* the fields of Arguments read so far that are still in use
  env,      \* what was read from the environment: fzf on the path, tty, GIT_PAGER
  flagset,  \* Options::new's flagset
  engine,   \* Some(engine) once it is built
  fzf,      \* Options::new's fzf
  action,   \* Options::new's action
  result    \* None while running, then Ok(Options) or Err(failure)

vars == <<pc, raw, argv, args, env, flagset, engine, fzf, action, result>>

NoRecord == [x \in {} |-> x]

InitVars ==
  /\ raw = <<>>
  /\ argv = <<>>
  /\ args = NoRecord
  /\ env = NoRecord
  /\ flagset = <<>>
  /\ engine = None
  /\ fzf = None
  /\ action = "unset"
  /\ result = None

\* -------------------------------------------------------------------------
\* SpecArgs: Arguments::new
\* -------------------------------------------------------------------------
InitArgs == pc = "main" /\ InitVars

ArgumentsNew ==
  /\ pc = "main"
  /\ \E r \in RawArgs :
       /\ raw' = r
       /\ argv' = ArgumentsNewArgs(r)
  /\ pc' = "parse"
  /\ UNCHANGED <<args, env, flagset, engine, fzf, action, result>>

NextArgs == ArgumentsNew

SpecArgs == InitArgs /\ [][NextArgs]_vars

\* -------------------------------------------------------------------------
\* Spec: Options::new.  Each step draws the fields of Arguments and the facts
\* of the environment that it reads.  args.pattern and flagset are last read
\* when the engine is built, so the step after it no longer carries them.
\* -------------------------------------------------------------------------
Init == pc = "flagset" /\ InitVars

(* let mut flagset = p_auto_flags(..); flagset.extend(..) *)
BuildFlagset ==
  /\ pc = "flagset"
  /\ \E pattern \in Patterns, flags \in FlagArgs :
       /\ args' = [pattern |-> pattern, flags |-> flags]
       /\ flagset' = FlagSet(pattern, flags)
  /\ pc' = "engine"
  /\ UNCHANGED <<raw, argv, env, engine, fzf, action, result>>

(* let engine = ..; the `?` returns the builder's error from Options::new *)
BuildEngine ==
  /\ pc = "engine"
  /\ \E exact \in BOOLEAN, replace \in ReplaceArgs :
       LET built == EngineOf(exact, args.pattern, flagset, replace)
       IN  /\ args' = [pattern |-> args.pattern, flags |-> args.flags,
                       exact |-> exact, replace |-> replace]
           /\ IF built.ok
              THEN engine' = Some(built.val) /\ pc' = "fzf" /\ result' = result
              ELSE engine' = engine /\ pc' = "err" /\ result' = built
  /\ UNCHANGED <<raw, argv, env, flagset, fzf, action>>

(* let fzf = p_fzf(args.fzf) *)
ResolveFzf ==
  /\ pc = "fzf"
  /\ \E f \in FzfArgs, which_fzf \in BOOLEAN, tty \in BOOLEAN :
       /\ args' = [fzf |-> f]
       /\ env' = [which_fzf |-> which_fzf, tty |-> tty]
       /\ fzf' = p_fzf(f, which_fzf, tty)
  /\ flagset' = <<>>
  /\ pc' = "action"
  /\ UNCHANGED <<raw, argv, engine, action, result>>

(* let action = if .. *)
ResolveAction ==
  /\ pc = "action"
  /\ \E commit \in BOOLEAN, internal_patch \in PatchArgs,
        internal_preview \in PreviewArgs :
       /\ args' = [fzf |-> args.fzf, commit |-> commit,
                   internal_patch |-> internal_patch,
                   internal_preview |-> internal_preview]
       /\ action' = ActionOf(commit, internal_patch, internal_preview, fzf)
  /\ pc' = "printer"
  /\ UNCHANGED <<raw, argv, env, flagset, engine, fzf, result>>

(* let printer = ..; Ok(Options { .. }) *)
ResolvePrinter ==
  /\ pc = "printer"
  /\ \E pager \in PagerArgs, git_pager \in GitPagerEnv :
       /\ args' = [fzf |-> args.fzf, commit |-> args.commit,
                   internal_patch |-> args.internal_patch,
                   internal_preview |-> args.internal_preview,
                   pager |-> pager]
       /\ env' = [which_fzf |-> env.which_fzf, tty |-> env.tty,
                  GIT_PAGER |-> git_pager]
       /\ result' = Ok([action |-> action, engine |-> engine[1], fzf |-> fzf,
                        printer |-> PrinterOf(pager, git_pager)])
  /\ pc' = "done"
  /\ UNCHANGED <<raw, argv, flagset, engine, fzf, action>>

Next ==
  \/ BuildFlagset
  \/ BuildEngine
  \/ ResolveFzf
  \/ ResolveAction
  \/ ResolvePrinter

Spec == Init /\ [][Next]_vars

\* -------------------------------------------------------------------------
\* Properties of Options::new (Spec)
\* -------------------------------------------------------------------------
Done == pc = "done"
Options == result.val

CommitAsked == args.commit \/ args.internal_patch # None

(* C1: the Action of the returned Options is Commit if commit is set or an  *)
(* internal-patch list is present; otherwise Preview if an internal-preview *)
(* marker is present or the fzf field is None; otherwise Fzf.  Every run    *)
(* whose engine builds returns Options with one of the three.               *)
C1_ActionPrecedence ==
  /\ pc \in {"fzf", "action", "printer", "done"} <=> engine # None
  /\ Done =>
       /\ result.ok
       /\ Options.action \in {"Commit", "Preview", "Fzf"}
       /\ CommitAsked => Options.action = "Commit"
       /\ (~CommitAsked /\ (args.internal_preview # None \/ Options.fzf = None))
            => Options.action = "Preview"
       /\ (~CommitAsked /\ args.internal_preview = None /\ Options.fzf # None)
            => Options.action = "Fzf"

(* C1 witness: an internal-patch list and an internal-preview marker are    *)
(* both present, commit is not set, and the run returned Commit.            *)
C1_Witness ==
  /\ Done
  /\ ~args.commit
  /\ args.internal_patch # None
  /\ args.internal_preview # None
  /\ Options.action = "Commit"

FzfUnavailable ==
  \/ ~env.which_fzf
  \/ ~env.tty
  \/ args.fzf = Some(S_never)

(* C2 as stated: without commit and with the fuzzy finder unavailable the   *)
(* Action is Preview, whatever the other fields are.                        *)
C2_Original ==
  (Done /\ ~args.commit /\ FzfUnavailable) => Options.action = "Preview"

(* C2 as amended: without commit, without an internal-patch list and with   *)
(* the fuzzy finder unavailable the Action is Preview, whatever the other   *)
(* fields are.                                                              *)
C2_PreviewWhenFzfUnavailable ==
  (Done /\ ~args.commit /\ args.internal_patch = None /\ FzfUnavailable)
    => (Options.action = "Preview" /\ Options.fzf = None)

(* C2 witness: fzf is on the path and the output is a terminal, the         *)
(* specifier is "never", nothing else asks for a preview, and the run       *)
(* returned Preview.                                                        *)
C2_Witness ==
  /\ Done
  /\ ~args.commit
  /\ args.internal_patch = None
  /\ args.internal_preview = None
  /\ env.which_fzf /\ env.tty
  /\ args.fzf = Some(S_never)
  /\ Options.action = "Preview"

AllowedFlags(exact) ==
  IF exact THEN {<<"I">>, <<"i">>}
  ELSE {<<"I">>, <<"i">>, <<"m">>, <<"s">>, <<"U">>, <<"x">>}

EngineTried == pc \in {"fzf", "err"}

UnknownFlag == \E j \in 1..Len(flagset) : flagset[j] \notin AllowedFlags(args.exact)

(* C3: once the engine build has been tried, Options::new has returned the  *)
(* InvalidFlags error exactly when some flag of the sequence is outside the *)
(* engine's set; on an error no engine and no Options exist, and nothing    *)
(* follows.                                                                 *)
C3_UnknownFlagsRejected ==
  /\ EngineTried =>
       (UnknownFlag <=> (pc = "err" /\ result = Err(InvalidFlags)))
  /\ pc = "err" => (~result.ok /\ engine = None /\ ~ENABLED Next)
  /\ (result # None /\ result.ok) => Done

(* C3 witness: literal mode, a flag that regex mode accepts, and the        *)
(* InvalidFlags error.                                                      *)
C3_Witness ==
  /\ pc = "err"
  /\ args.exact
  /\ \E j \in 1..Len(flagset) : flagset[j] = <<"m">>
  /\ \A j \in 1..Len(flagset) : flagset[j] \in AllowedFlags(FALSE)
  /\ result = Err(InvalidFlags)

CaseFlagAt(j) == flagset[j] \in {<<"I">>, <<"i">>}

LastCaseFlag ==
  flagset[CHOOSE j \in 1..Len(flagset) :
            CaseFlagAt(j) /\ \A k \in (j + 1)..Len(flagset) : ~CaseFlagAt(k)]

Has(flag) == \E j \in 1..Len(flagset) : flagset[j] = flag

(* C4: a flag sequence with repeated or conflicting flags is not rejected   *)
(* for that: the InvalidFlags error needs a flag outside the engine's set.  *)
(* The engine that is built is case-insensitive iff the last "I"/"i" of the *)
(* sequence is "i", and each of the other settings is on iff its flag       *)
(* occurs.                                                                  *)
C4_LastAppliedWins ==
  /\ (pc = "err" /\ result = Err(InvalidFlags)) => UnknownFlag
  /\ pc = "fzf" =>
       LET m == engine[1].matcher
       IN  IF engine[1].kind = "AhoCorasick"
           THEN /\ args.exact
                /\ m.ascii_case_insensitive = (LastCaseFlag = <<"i">>)
           ELSE /\ ~args.exact
                /\ m.case_insensitive = (LastCaseFlag = <<"i">>)
                /\ m.multi_line = Has(<<"m">>)
                /\ m.dot_matches_new_line = Has(<<"s">>)
                /\ m.swap_greed = Has(<<"U">>)
                /\ m.ignore_whitespace = Has(<<"x">>)

(* C4 witness: the pattern has no uppercase letter, the user's flags are    *)
(* "i" then "I", and the regex engine was built case-sensitive.             *)
C4_Witness ==
  /\ pc = "fzf"
  /\ ~args.exact
  /\ args.flags = Some(<<"i", "I">>)
  /\ flagset = <<<<"i">>, <<"i">>, <<"I">>>>
  /\ ~engine[1].matcher.case_insensitive

AutoFlag ==
  IF \E j \in 1..Len(args.pattern) : IsUppercase(args.pattern[j])
  THEN <<"I">>
  ELSE <<"i">>

(* C9: the flag sequence given to the engine builder is one automatic flag  *)
(* followed by the characters of the user's flag string: "I" when the       *)
(* pattern has an uppercase letter, "i" when it has none or is empty.       *)
C9_AutoFlag ==
  pc \in {"engine", "fzf", "err"} =>
    /\ Len(flagset) = 1 + Len(unwrap_or_default(args.flags))
    /\ flagset[1] = AutoFlag
    /\ \A j \in 1..Len(unwrap_or_default(args.flags)) :
         flagset[j + 1] = <<args.flags[1][j]>>
    /\ args.pattern = <<>> => flagset[1] = <<"i">>

(* C9 witness: the pattern is a lowercase letter followed by an uppercase   *)
(* one, the user gave the flag "i", and the sequence starts with "I".       *)
C9_Witness ==
  /\ pc = "engine"
  /\ args.pattern = <<"a", "A">>
  /\ args.flags = Some(<<"i">>)
  /\ flagset = <<<<"I">>, <<"i">>>>

Specifier == IF args.pager # None THEN args.pager ELSE env.GIT_PAGER

(* The text of s before its first `|`, or s when it has none. *)
BeforeBar(s) ==
  LET bars == {j \in 1..Len(s) : s[j] = "|"}
  IN  IF bars = {} THEN s
      ELSE SubSeq(s, 1, (CHOOSE j \in bars : \A k \in bars : j <= k) - 1)

(* C7: the pager specifier is --pager if given, else GIT_PAGER.  Absent or  *)
(* "never", the Printer is Stdout.  Otherwise the text before the first `|` *)
(* is split on whitespace: no token gives Stdout, else the first token is   *)
(* the program, the rest its arguments and the environment is empty.        *)
(* "less -R | cat" gives less with the argument -R.                         *)
C7_PagerResolution ==
  Done =>
    /\ (Specifier = None \/ Specifier = Some(S_never))
         => Options.printer = Stdout
    /\ (Specifier # None /\ Specifier # Some(S_never)) =>
         LET tokens == split_whitespace(BeforeBar(Specifier[1]))
         IN  IF tokens = <<>> THEN Options.printer = Stdout
             ELSE Options.printer =
                    [kind |-> "Pager",
                     cmd |-> [program |-> tokens[1],
                              arguments |-> Tail(tokens), env |-> {}]]
    /\ Specifier = Some(S_less_R_cat) =>
         Options.printer =
           [kind |-> "Pager",
            cmd |-> [program |-> S_less, arguments |-> <<S_dash_R>>, env |-> {}]]

(* C7 witness: --pager is "never" while GIT_PAGER names a pager, and the    *)
(* Printer is Stdout.                                                       *)
C7_Witness ==
  /\ Done
  /\ args.pager = Some(S_never)
  /\ env.GIT_PAGER = Some(S_delta)
  /\ Options.printer = Stdout

FzfResolved == pc \in {"action", "printer", "done"}

(* C8: the fzf result is None when fzf is not on the path or the output is  *)
(* not a terminal.  With both: "never" gives None, another specifier its    *)
(* whitespace-separated tokens, no specifier the empty list.                *)
C8_FzfResolution ==
  FzfResolved =>
    /\ (~env.which_fzf \/ ~env.tty) => fzf = None
    /\ (env.which_fzf /\ env.tty) =>
         /\ args.fzf = Some(S_never) => fzf = None
         /\ args.fzf = None => fzf = Some(<<>>)
         /\ (args.fzf # None /\ args.fzf # Some(S_never)) =>
              /\ fzf # None
              /\ \A j \in 1..Len(fzf[1]) :
                   fzf[1][j] # <<>> /\ \A k \in 1..Len(fzf[1][j]) : ~IsWhitespace(fzf[1][j][k])
         /\ args.fzf = Some(S_fzf_opts) => fzf = Some(<<S_dash_m, S_plus_s>>)
         /\ args.fzf = Some(<<" ">>) => fzf = Some(<<>>)
    /\ Done => Options.fzf = fzf

(* C8 witness: a specifier was given and fzf is on the path, but the output *)
(* is not a terminal: the result is None.                                   *)
C8_Witness ==
  /\ FzfResolved
  /\ env.which_fzf
  /\ ~env.tty
  /\ args.fzf # None /\ args.fzf # Some(S_never)
  /\ fzf = None

(* C10: returned Options with the Action Fzf have a fzf argument list, and  *)
(* none of commit, internal-patch, internal-preview was given; so Options   *)
(* without a fzf list never have the Action Fzf.                            *)
C10_FzfActionHasFzf ==
  Done =>
    /\ Options.action = "Fzf" =>
         /\ Options.fzf # None
         /\ ~args.commit
         /\ args.internal_patch = None
         /\ args.internal_preview = None
    /\ Options.fzf = None => Options.action # "Fzf"

(* C10 witness: the Action is Fzf and the fzf argument list is present and  *)
(* empty.                                                                   *)
C10_Witness ==
  /\ Done
  /\ Options.action = "Fzf"
  /\ Options.fzf = Some(<<>>)


\* -------------------------------------------------------------------------
\* Properties of Arguments::new (SpecArgs)
\* -------------------------------------------------------------------------
ShellForm == pc = "parse" /\ Len(raw) >= 3 /\ raw[2] = S_dash_c

EotAt(s) == {j \in 1..Len(s) : s[j] = EOT}

(* The position of the k-th delimiter of s; 0 and Len(s) + 1 bound s. *)
EotPos(s, k) ==
  IF k = 0 THEN 0
  ELSE IF k > Cardinality(EotAt(s)) THEN Len(s) + 1
  ELSE CHOOSE j \in EotAt(s) : Cardinality({i \in EotAt(s) : i < j}) = k - 1

(* The k-th segment of s: the text between delimiters k - 1 and k. *)
Segment(s, k) == SubSeq(s, EotPos(s, k - 1) + 1, EotPos(s, k) - 1)

QuoteLeftOpen(s) ==
  /\ Cardinality({j \in 1..Len(s) : s[j] = DQUOTE}) = 1
  /\ \A j \in 1..Len(s) : s[j] \notin {"'", BSLASH, "#"}

(* C5: in the `-c` form the rebuilt list is the program name, then every    *)
(* segment of the third argument but the last, unchanged and in order, then *)
(* the words of the last segment; a last segment that does not lex adds     *)
(* nothing.                                                                 *)
C5_Reconstruction ==
  ShellForm =>
    LET n == Cardinality(EotAt(raw[3]))
        words == shlex_split(Segment(raw[3], n + 1))
    IN  /\ Len(argv) >= n + 1
        /\ argv[1] = raw[1]
        /\ \A k \in 1..n : argv[k + 1] = Segment(raw[3], k)
        /\ SubSeq(argv, n + 2, Len(argv)) = (IF words = None THEN <<>> ELSE words[1])
        /\ QuoteLeftOpen(Segment(raw[3], n + 1)) => Len(argv) = n + 1

(* C5 witness: two segments, the last one a lone double quote, which does   *)
(* not lex: the list is the name and the first segment.                     *)
C5_Witness ==
  /\ ShellForm
  /\ raw[3] = <<"a", EOT, DQUOTE>>
  /\ argv = <<S_sad, <<"a">>>>

(* C6 as stated: the example rebuilds to sad, --exact, bar, baz. *)
C6_Original ==
  (pc = "parse" /\ raw = ExampleRaw) => argv = <<S_sad, S_exact, S_bar, S_baz>>

(* C6 as amended: the example rebuilds to sad, --exact, foo, bar, baz. *)
C6_Example ==
  (pc = "parse" /\ raw = ExampleRaw) => argv = <<S_sad, S_exact, S_foo, S_bar, S_baz>>

(* C6 witness: the example has been rebuilt and foo is its third argument. *)
C6_Witness ==
  /\ pc = "parse"
  /\ raw = ExampleRaw
  /\ Len(argv) = 5
  /\ argv[3] = S_foo

=============================================================================
